---- MODULE Spec2Model ----
(***************************************************************************)
(* Model of the bounce-page generator of shop.unigoods.im (main.go).       *)
(*                                                                         *)
(* A Go string is a sequence of one-character strings, so that escaping,   *)
(* trimming, case folding and URL parsing are computed character by        *)
(* character, as the program computes them.                                *)
(***************************************************************************)
EXTENDS Integers, Sequences, FiniteSets, TLC

VARIABLES
    pc,     \* position of main: "start", "routes", "tail", "done", "fatal"; "idle" otherwise
    cfg,    \* the Config loaded by loadConfig
    todo,   \* route keys the range loop of main has not visited yet
    files,  \* output directory: file path -> content written
    hist,   \* per visited route key: what the loop body computed for it
    call    \* a single call of one function, with its arguments and result

vars == <<pc, cfg, todo, files, hist, call>>

----------------------------------------------------------------------------
(* Go strings                                                              *)

UpperLetters ==
    <<"A", "B", "C", "D", "E", "F", "G", "H", "I", "J", "K", "L", "M", "N", "O", "P", "Q", "R", "S", "T", "U", "V", "W", "X", "Y", "Z">>

LowerLetters ==
    <<"a", "b", "c", "d", "e", "f", "g", "h", "i", "j", "k", "l", "m", "n", "o", "p", "q", "r", "s", "t", "u", "v", "w", "x", "y", "z">>

Digits ==
    <<"0", "1", "2", "3", "4", "5", "6", "7", "8", "9">>

Range(s) == {s[i] : i \in DOMAIN s}

IsUpper(c) == c \in Range(UpperLetters)
IsLower(c) == c \in Range(LowerLetters)
IsLetter(c) == IsUpper(c) \/ IsLower(c)
IsDigit(c) == c \in Range(Digits)

\* unicode.ToLower on one ASCII character
ToLowerChar(c) ==
    IF IsUpper(c)
    THEN LowerLetters[CHOOSE i \in DOMAIN UpperLetters : UpperLetters[i] = c]
    ELSE c

\* strings.ToLower
ToLower(s) == [i \in DOMAIN s |-> ToLowerChar(s[i])]

\* the white space strings.TrimSpace removes (ASCII part)
WhiteSpace == {" ", "\t", "\n", "\r", "\f"}

RECURSIVE TrimLeft(_)
TrimLeft(s) ==
    IF s # <<>> /\ Head(s) \in WhiteSpace THEN TrimLeft(Tail(s)) ELSE s

RECURSIVE TrimRight(_)
TrimRight(s) ==
    IF s # <<>> /\ s[Len(s)] \in WhiteSpace
    THEN TrimRight(SubSeq(s, 1, Len(s) - 1))
    ELSE s

\* strings.TrimSpace
TrimSpace(s) == TrimRight(TrimLeft(s))

\* strings.HasPrefix, strings.HasSuffix, strings.TrimPrefix, strings.TrimSuffix
HasPrefix(s, p) == Len(s) >= Len(p) /\ SubSeq(s, 1, Len(p)) = p

HasSuffix(s, p) == Len(s) >= Len(p) /\ SubSeq(s, Len(s) - Len(p) + 1, Len(s)) = p

TrimPrefix(s, p) == IF HasPrefix(s, p) THEN SubSeq(s, Len(p) + 1, Len(s)) ELSE s

TrimSuffix(s, p) == IF HasSuffix(s, p) THEN SubSeq(s, 1, Len(s) - Len(p)) ELSE s

\* strings.IndexByte: the first position of character c in s, 0 when absent
IndexByte(s, c) ==
    IF c \in Range(s) THEN CHOOSE i \in DOMAIN s : s[i] = c /\ \A j \in 1..(i - 1) : s[j] # c
    ELSE 0

\* strings.LastIndexByte: the last position of character c in s, 0 when absent
LastIndexByte(s, c) ==
    IF c \in Range(s) THEN CHOOSE i \in DOMAIN s : s[i] = c /\ \A j \in (i + 1)..Len(s) : s[j] # c
    ELSE 0

From(s, i) == SubSeq(s, i, Len(s))

Upto(s, i) == SubSeq(s, 1, i)

\* all strings over alphabet A of length at most n
RECURSIVE StringsUpTo(_, _)
StringsUpTo(A, n) ==
    IF n = 0 THEN {<<>>}
    ELSE LET shorter == StringsUpTo(A, n - 1)
         IN  shorter \cup {Append(s, c) : s \in {t \in shorter : Len(t) = n - 1}, c \in A}

----------------------------------------------------------------------------
(* html.EscapeString; its inverse and a well-formedness test, for the      *)
(* properties                                                              *)

AmpEntity ==
    <<"&", "a", "m", "p", ";">>
AposEntity ==
    <<"&", "#", "3", "9", ";">>
LtEntity ==
    <<"&", "l", "t", ";">>
GtEntity ==
    <<"&", "g", "t", ";">>
QuotEntity ==
    <<"&", "#", "3", "4", ";">>

\* the replacer table of html.EscapeString
EscapeChar(c) ==
    CASE c = "&" -> AmpEntity
      [] c = "'" -> AposEntity
      [] c = "<" -> LtEntity
      [] c = ">" -> GtEntity
      [] c = "\"" -> QuotEntity
      [] OTHER -> <<c>>

RECURSIVE EscapeString(_)
EscapeString(s) ==
    IF s = <<>> THEN <<>> ELSE EscapeChar(Head(s)) \o EscapeString(Tail(s))

Entities ==
    <<[ent |-> AmpEntity, ch |-> "&"], [ent |-> AposEntity, ch |-> "'"],
      [ent |-> LtEntity, ch |-> "<"], [ent |-> GtEntity, ch |-> ">"],
      [ent |-> QuotEntity, ch |-> "\""]>>

EntityAt(s) == {i \in DOMAIN Entities : HasPrefix(s, Entities[i].ent)}

\* html.UnescapeString on the five entities EscapeString produces
RECURSIVE UnescapeString(_)
UnescapeString(s) ==
    IF s = <<>> THEN <<>>
    ELSE IF EntityAt(s) # {}
         THEN LET e == Entities[CHOOSE i \in EntityAt(s) : TRUE]
              IN  <<e.ch>> \o UnescapeString(From(s, Len(e.ent) + 1))
         ELSE <<Head(s)>> \o UnescapeString(Tail(s))

\* the characters that must not reach HTML text or an attribute value raw
RawSpecial == {"<", ">", "\"", "'"}

\* s holds no raw special character, and every & of s starts an entity
RECURSIVE WellEscaped(_)
WellEscaped(s) ==
    IF s = <<>> THEN TRUE
    ELSE IF Head(s) \in RawSpecial THEN FALSE
    ELSE IF Head(s) = "&"
         THEN /\ EntityAt(s) # {}
              /\ WellEscaped(From(s, Len(Entities[CHOOSE i \in EntityAt(s) : TRUE].ent) + 1))
         ELSE WellEscaped(Tail(s))

----------------------------------------------------------------------------
(* cleanRoutePath and the output path of a route                           *)

Slash ==
    <<"/">>

cleanRoutePath(p) ==
    IF p = <<>> THEN Slash
    ELSE LET q == IF ~HasPrefix(p, Slash) THEN Slash \o p ELSE p
         IN  TrimSuffix(q, Slash)

\* the segments of a path between its separators
RECURSIVE SplitSlash(_)
SplitSlash(s) ==
    LET i == IndexByte(s, "/")
    IN  IF i = 0 THEN <<s>>
        ELSE <<Upto(s, i - 1)>> \o SplitSlash(From(s, i + 1))

RECURSIVE JoinSlash(_)
JoinSlash(segs) ==
    IF segs = <<>> THEN <<>>
    ELSE IF Len(segs) = 1 THEN segs[1]
    ELSE segs[1] \o Slash \o JoinSlash(Tail(segs))

Dot ==
    <<".">>
DotDot ==
    <<".", ".">>

\* the segment stack of filepath.Clean for a relative path: empty and "." segments
\* are dropped, ".." removes the segment before it when there is one to remove
RECURSIVE CleanSegs(_, _)
CleanSegs(segs, acc) ==
    IF segs = <<>> THEN acc
    ELSE LET s == Head(segs)
         IN  IF s = <<>> \/ s = Dot THEN CleanSegs(Tail(segs), acc)
             ELSE IF s = DotDot /\ acc # <<>> /\ acc[Len(acc)] # DotDot
                  THEN CleanSegs(Tail(segs), SubSeq(acc, 1, Len(acc) - 1))
                  ELSE CleanSegs(Tail(segs), Append(acc, s))

\* filepath.Clean of a relative path
Clean(p) ==
    LET segs == CleanSegs(SplitSlash(p), <<>>)
    IN  IF segs = <<>> THEN Dot ELSE JoinSlash(segs)

\* filepath.Join(a, b): empty elements are ignored, the rest joined and cleaned
Join(a, b) ==
    IF a = <<>> /\ b = <<>> THEN <<>>
    ELSE IF a = <<>> THEN Clean(b)
    ELSE IF b = <<>> THEN Clean(a)
    ELSE Clean(a \o Slash \o b)

\* the default of the -out flag
OutDir == Dot

IndexHtml ==
    <<"i", "n", "d", "e", "x", ".", "h", "t", "m", "l">>
CnameFile ==
    <<"C", "N", "A", "M", "E">>
NotFoundFile ==
    <<"4", "0", "4", ".", "h", "t", "m", "l">>
NotFoundPath ==
    <<"/", "4", "0", "4">>

\* the directory and the file main writes for a cleaned route path
DestDir(routePath) == Join(OutDir, TrimPrefix(routePath, Slash))

DestFile(routePath) == Join(DestDir(routePath), IndexHtml)

----------------------------------------------------------------------------
(* buildHTML                                                               *)

SiteOrigin ==
    <<"h", "t", "t", "p", "s", ":", "/", "/", "s", "h", "o", "p", ".", "u", "n", "i", "g", "o", "o", "d", "s", ".", "i", "m">>

\* the %s verbs of the template, in the order they occur in it
TplSites ==
    <<"title", "description", "og:title", "og:description", "og:image",
      "og:url", "canonical", "script", "noscript">>

\* fmt.Sprintf on the template: the i-th verb takes the i-th argument.  A
\* document is its interpolated values by site; the text between them is fixed.
Sprintf(args) ==
    [site \in Range(TplSites) |->
        args[CHOOSE i \in DOMAIN TplSites : TplSites[i] = site]]

\* a variant that interpolates the image unescaped
BuildHTMLRawImage(path, to, og) ==
    LET title == EscapeString(og.Title)
        desc == EscapeString(og.Description)
        img == og.Image
        shopURL == EscapeString(SiteOrigin \o path)
        toEsc == EscapeString(to)
    IN  Sprintf(<<title, desc, title, desc, img, shopURL, toEsc, toEsc, toEsc>>)

buildHTML(path, to, og) ==
    LET title == EscapeString(og.Title)
        desc == EscapeString(og.Description)
        img == EscapeString(og.Image)
        shopURL == EscapeString(SiteOrigin \o path)
        toEsc == EscapeString(to)
    IN  Sprintf(<<title, desc, title, desc, img, shopURL, toEsc, toEsc, toEsc>>)

----------------------------------------------------------------------------
(* parseOGHTML                                                             *)

KProperty ==
    <<"p", "r", "o", "p", "e", "r", "t", "y">>
KName ==
    <<"n", "a", "m", "e">>
KContent ==
    <<"c", "o", "n", "t", "e", "n", "t">>
MetaTag ==
    <<"m", "e", "t", "a">>
OgTitleKey ==
    <<"o", "g", ":", "t", "i", "t", "l", "e">>
OgDescriptionKey ==
    <<"o", "g", ":", "d", "e", "s", "c", "r", "i", "p", "t", "i", "o", "n">>
OgImageKey ==
    <<"o", "g", ":", "i", "m", "a", "g", "e">>

\* the zero value OG{}
NoOG == [Title |-> <<>>, Description |-> <<>>, Image |-> <<>>]

\* strings.EqualFold on ASCII
EqualFold(s, t) == ToLower(s) = ToLower(t)

NoAttrs == [prop |-> <<>>, name |-> <<>>, cont |-> <<>>]

\* the loop over n.Attr: a later attribute of the same key overwrites an earlier one
RECURSIVE ReadAttrs(_, _)
ReadAttrs(attrs, acc) ==
    IF attrs = <<>> THEN acc
    ELSE LET a == Head(attrs)
             k == ToLower(a.Key)
         IN  ReadAttrs(Tail(attrs),
                 CASE k = KProperty -> [acc EXCEPT !.prop = ToLower(TrimSpace(a.Val))]
                   [] k = KName -> [acc EXCEPT !.name = ToLower(TrimSpace(a.Val))]
                   [] k = KContent -> [acc EXCEPT !.cont = TrimSpace(a.Val)]
                   [] OTHER -> acc)

\* a variant in which the name attribute takes precedence over property
LookupKeyNameFirst(r) == IF r.name = <<>> THEN r.prop ELSE r.name

\* key := prop; if key == "" { key = name }
LookupKey(r) == IF r.prop = <<>> THEN r.name ELSE r.prop

\* a variant that keeps the first value of a field
VisitNodeFirstWins(og, n) ==
    IF ~EqualFold(n.Data, MetaTag) THEN og
    ELSE LET r == ReadAttrs(n.Attr, NoAttrs)
             key == LookupKey(r)
         IN  CASE key = OgTitleKey /\ og.Title = <<>> -> [og EXCEPT !.Title = r.cont]
               [] key = OgDescriptionKey /\ og.Description = <<>> -> [og EXCEPT !.Description = r.cont]
               [] key = OgImageKey /\ og.Image = <<>> -> [og EXCEPT !.Image = r.cont]
               [] OTHER -> og

\* the body of the closure f for one node, without the descent into its children
VisitNode(og, n) ==
    IF ~EqualFold(n.Data, MetaTag) THEN og
    ELSE LET r == ReadAttrs(n.Attr, NoAttrs)
             key == LookupKey(r)
         IN  CASE key = OgTitleKey -> [og EXCEPT !.Title = r.cont]
               [] key = OgDescriptionKey -> [og EXCEPT !.Description = r.cont]
               [] key = OgImageKey -> [og EXCEPT !.Image = r.cont]
               [] OTHER -> og

\* f(doc): a document is the sequence of its element nodes in depth-first
\* document order, the order in which f visits them
RECURSIVE Walk(_, _)
Walk(nodes, og) ==
    IF nodes = <<>> THEN og ELSE Walk(Tail(nodes), VisitNode(og, Head(nodes)))

parseOGHTML(body) == Walk(body, NoOG)

----------------------------------------------------------------------------
(* net/url as absolutize and fetchOG use it.  Modelled: scheme, authority  *)
(* (host and port), path, query; percent-encoding of the path on output;   *)
(* reference resolution with dot-segment removal.  Not modelled: fragments *)
(* ("#"), user information ("@"), IPv6 literals ("["), and valid %XX       *)
(* escapes (a "%" of the model's strings never precedes two hex digits).   *)

Colon ==
    <<":">>

\* c < ' ' || c == 0x7f
ControlChars == {"\t", "\n", "\r", "\f"}

HexDigits == Range(Digits) \cup {"a", "b", "c", "d", "e", "f", "A", "B", "C", "D", "E", "F"}

Unreserved(c) == IsLetter(c) \/ IsDigit(c) \/ c \in {"-", "_", ".", "~"}

\* shouldEscape(c, encodePath)
ShouldEscapePath(c) ==
    ~(Unreserved(c) \/ c \in {"$", "&", "+", ",", "/", ":", ";", "=", "@"})

\* shouldEscape(c, encodeHost)
ShouldEscapeHost(c) ==
    ~(Unreserved(c) \/ c \in {"!", "$", "&", "'", "(", ")", "*", "+", ",", ";", "=",
                              ":", "[", "]", "<", ">", "\""})

\* the upper-case hexadecimal code of the ASCII characters the model escapes
PctCode(c) ==
    CASE c = " " -> <<"%", "2", "0">>
      [] c = "!" -> <<"%", "2", "1">>
      [] c = "\"" -> <<"%", "2", "2">>
      [] c = "#" -> <<"%", "2", "3">>
      [] c = "%" -> <<"%", "2", "5">>
      [] c = "'" -> <<"%", "2", "7">>
      [] c = "(" -> <<"%", "2", "8">>
      [] c = ")" -> <<"%", "2", "9">>
      [] c = "*" -> <<"%", "2", "A">>
      [] c = "<" -> <<"%", "3", "C">>
      [] c = ">" -> <<"%", "3", "E">>
      [] c = "?" -> <<"%", "3", "F">>
      [] c = "[" -> <<"%", "5", "B">>
      [] c = "]" -> <<"%", "5", "D">>

\* escape(s, encodePath)
RECURSIVE EscapePath(_)
EscapePath(s) ==
    IF s = <<>> THEN <<>>
    ELSE (IF ShouldEscapePath(Head(s)) THEN PctCode(Head(s)) ELSE <<Head(s)>>)
         \o EscapePath(Tail(s))

\* validEncoded(s, encodePath)
ValidEncodedPath(s) ==
    \A i \in DOMAIN s :
        \/ s[i] \in {"!", "$", "&", "'", "(", ")", "*", "+", ",", ";", "=", ":", "@",
                     "[", "]", "%"}
        \/ ~ShouldEscapePath(s[i])

\* unescape fails on a "%" that two hexadecimal digits do not follow
BadEscape(s) ==
    \E i \in DOMAIN s :
        /\ s[i] = "%"
        /\ ~(i + 2 <= Len(s) /\ s[i + 1] \in HexDigits /\ s[i + 2] \in HexDigits)

\* what EscapedPath returns after setPath(p): RawPath when it is a valid
\* encoding, the escaped Path otherwise
EscapedPathOf(p) == IF ValidEncodedPath(p) THEN p ELSE EscapePath(p)

NoURL ==
    [Scheme |-> <<>>, Opaque |-> <<>>, Host |-> <<>>, Path |-> <<>>,
     RawQuery |-> <<>>, ForceQuery |-> FALSE, OmitHost |-> FALSE]

\* getScheme: [err, scheme, rest]
RECURSIVE GetSchemeFrom(_, _)
GetSchemeFrom(raw, i) ==
    IF i > Len(raw) THEN [err |-> FALSE, scheme |-> <<>>, rest |-> raw]
    ELSE LET c == raw[i]
         IN  IF IsLetter(c) THEN GetSchemeFrom(raw, i + 1)
             ELSE IF IsDigit(c) \/ c \in {"+", "-", "."}
                  THEN IF i = 1 THEN [err |-> FALSE, scheme |-> <<>>, rest |-> raw]
                       ELSE GetSchemeFrom(raw, i + 1)
             ELSE IF c = ":"
                  THEN IF i = 1 THEN [err |-> TRUE, scheme |-> <<>>, rest |-> <<>>]
                       ELSE [err |-> FALSE, scheme |-> Upto(raw, i - 1), rest |-> From(raw, i + 1)]
             ELSE [err |-> FALSE, scheme |-> <<>>, rest |-> raw]

getScheme(raw) == GetSchemeFrom(raw, 1)

\* validOptionalPort
ValidOptionalPort(port) ==
    \/ port = <<>>
    \/ /\ port[1] = ":"
       /\ \A i \in 2..Len(port) : IsDigit(port[i])

\* parseHost: TRUE when the host is rejected
BadHost(host) ==
    \/ /\ LastIndexByte(host, ":") # 0
       /\ ~ValidOptionalPort(From(host, LastIndexByte(host, ":")))
    \/ \E i \in DOMAIN host : host[i] = "%" \/ ShouldEscapeHost(host[i])

CountByte(s, c) == Cardinality({i \in DOMAIN s : s[i] = c})

ParseError == [err |-> TRUE, url |-> NoURL]

\* setPath, after the authority (if any) is parsed
FinishParse(u0, hasAuth, authority, path, omit) ==
    IF hasAuth /\ BadHost(authority) THEN ParseError
    ELSE IF BadEscape(path) THEN ParseError
    ELSE [err |-> FALSE,
          url |-> [u0 EXCEPT !.Host = authority, !.OmitHost = omit,
                             !.Path = EscapedPathOf(path)]]

\* authority, rest = rest[2:], ""; then split at the first "/"
ParseAuthority(u0, after, cut) ==
    FinishParse(u0, TRUE,
                IF cut = 0 THEN after ELSE Upto(after, cut - 1),
                IF cut = 0 THEN <<>> ELSE From(after, cut),
                FALSE)

\* parse, once the scheme and the query are split off
ParseRest(u0, rest) ==
    IF ~HasPrefix(rest, Slash) /\ u0.Scheme # <<>>
    THEN [err |-> FALSE, url |-> [u0 EXCEPT !.Opaque = rest]]
    ELSE IF ~HasPrefix(rest, Slash) /\ ":" \in Range(Head(SplitSlash(rest)))
    THEN ParseError
    ELSE IF HasPrefix(rest, <<"/", "/">>)
            /\ (u0.Scheme # <<>> \/ ~HasPrefix(rest, <<"/", "/", "/">>))
    THEN ParseAuthority(u0, From(rest, 3), IndexByte(From(rest, 3), "/"))
    ELSE FinishParse(u0, FALSE, <<>>, rest, u0.Scheme # <<>> /\ HasPrefix(rest, Slash))

\* the query: a lone trailing "?" forces an empty query, else cut at the first "?"
SplitQuery(scheme, r, q) ==
    IF HasSuffix(r, <<"?">>) /\ CountByte(r, "?") = 1
    THEN ParseRest([NoURL EXCEPT !.Scheme = scheme, !.ForceQuery = TRUE], Upto(r, Len(r) - 1))
    ELSE ParseRest([NoURL EXCEPT !.Scheme = scheme,
                                 !.RawQuery = IF q = 0 THEN <<>> ELSE From(r, q + 1)],
                   IF q = 0 THEN r ELSE Upto(r, q - 1))

\* url.Scheme = strings.ToLower(url.Scheme)
ParseScheme(gs) ==
    IF gs.err THEN ParseError
    ELSE SplitQuery(ToLower(gs.scheme), gs.rest, IndexByte(gs.rest, "?"))

\* url.Parse: [err, url]; url.Path holds the path as EscapedPath returns it
UrlParse(raw) ==
    IF \E i \in DOMAIN raw : raw[i] \in ControlChars THEN ParseError
    ELSE IF raw = <<"*">> THEN [err |-> FALSE, url |-> [NoURL EXCEPT !.Path = raw]]
    ELSE ParseScheme(getScheme(raw))

\* (*URL).IsAbs
IsAbs(u) == u.Scheme # <<>>

\* the part of String before the path: scheme, "//", host, and the "/" a
\* rootless path gets after a host
UrlPrefix(u) ==
    (IF u.Scheme # <<>> THEN u.Scheme \o Colon ELSE <<>>)
    \o (IF u.Opaque = <<>> /\ (u.Scheme # <<>> \/ u.Host # <<>>) /\ ~(u.OmitHost /\ u.Host = <<>>)
        THEN (IF u.Host # <<>> \/ u.Path # <<>> THEN <<"/", "/">> ELSE <<>>) \o u.Host
        ELSE <<>>)
    \o (IF u.Opaque = <<>> /\ u.Path # <<>> /\ Head(u.Path) # "/" /\ u.Host # <<>>
        THEN Slash ELSE <<>>)

UrlStringFrom(u, prefix) ==
    prefix
    \o (IF u.Opaque # <<>> THEN u.Opaque
        ELSE (IF prefix = <<>> /\ ":" \in Range(Head(SplitSlash(u.Path)))
              THEN <<".", "/">> ELSE <<>>) \o u.Path)
    \o (IF u.ForceQuery \/ u.RawQuery # <<>> THEN <<"?">> \o u.RawQuery ELSE <<>>)

\* (*URL).String
UrlString(u) == UrlStringFrom(u, UrlPrefix(u))

\* the loop of resolvePath over the elements of full: [dst, first]
RECURSIVE ResolveElems(_, _)
ResolveElems(elems, st) ==
    IF elems = <<>> THEN st
    ELSE LET elem == Head(elems)
             str == Tail(st.dst)
             index == LastIndexByte(str, "/")
         IN  ResolveElems(Tail(elems),
                 IF elem = Dot THEN [st EXCEPT !.first = FALSE]
                 ELSE IF elem = DotDot
                      THEN IF index = 0 THEN [dst |-> Slash, first |-> TRUE]
                           ELSE [dst |-> Slash \o Upto(str, index - 1), first |-> st.first]
                 ELSE [dst |-> st.dst \o (IF st.first THEN <<>> ELSE Slash) \o elem,
                       first |-> FALSE])

\* the end of resolvePath: a final "." or ".." leaves a trailing "/", and the
\* "/" written first is dropped when another follows it
ResolveFinish(elems, dst) ==
    LET r == IF elems[Len(elems)] = Dot \/ elems[Len(elems)] = DotDot THEN dst \o Slash ELSE dst
    IN  IF Len(r) > 1 /\ r[2] = "/" THEN Tail(r) ELSE r

ResolveFull(full, elems) ==
    IF full = <<>> THEN <<>>
    ELSE ResolveFinish(elems, ResolveElems(elems, [dst |-> Slash, first |-> TRUE]).dst)

ResolveJoin(full) == ResolveFull(full, SplitSlash(full))

\* resolvePath(base, ref)
resolvePath(base, ref) ==
    ResolveJoin(IF ref = <<>> THEN base
                ELSE IF Head(ref) # "/" THEN Upto(base, LastIndexByte(base, "/")) \o ref
                ELSE ref)

\* (*URL).ResolveReference
ResolveReference(u, ref) ==
    IF ref.Scheme # <<>> \/ ref.Host # <<>>
    THEN [ref EXCEPT !.Scheme = IF ref.Scheme = <<>> THEN u.Scheme ELSE ref.Scheme,
                     !.Path = resolvePath(ref.Path, <<>>)]
    ELSE IF ref.Opaque # <<>>
    THEN [ref EXCEPT !.Scheme = u.Scheme, !.Host = <<>>, !.Path = <<>>]
    ELSE IF ref.Path = <<>> /\ u.Opaque # <<>>
    THEN [ref EXCEPT !.Scheme = u.Scheme, !.Opaque = u.Opaque, !.Host = <<>>, !.Path = <<>>,
                     !.RawQuery = IF ~ref.ForceQuery /\ ref.RawQuery = <<>>
                                  THEN u.RawQuery ELSE ref.RawQuery]
    ELSE [ref EXCEPT !.Scheme = u.Scheme, !.Host = u.Host,
                     !.Path = resolvePath(u.Path, ref.Path),
                     !.RawQuery = IF ref.Path = <<>> /\ ~ref.ForceQuery /\ ref.RawQuery = <<>>
                                  THEN u.RawQuery ELSE ref.RawQuery]

\* a variant that leaves a protocol-relative reference without a scheme
AbsoluteAgainstNoScheme(raw, u, pb) ==
    IF pb.err THEN [out |-> raw, err |-> TRUE]
    ELSE IF u.Host # <<>> /\ u.Scheme = <<>>
    THEN [out |-> UrlString(u), err |-> FALSE]
    ELSE [out |-> UrlString(ResolveReference(pb.url, u)), err |-> FALSE]

\* absolutize, once the reference is parsed and found not absolute
AbsoluteAgainst(raw, u, pb) ==
    IF pb.err THEN [out |-> raw, err |-> TRUE]
    ELSE IF u.Host # <<>> /\ u.Scheme = <<>>
    THEN [out |-> UrlString([u EXCEPT !.Scheme = pb.url.Scheme]), err |-> FALSE]
    ELSE [out |-> UrlString(ResolveReference(pb.url, u)), err |-> FALSE]

\* absolutize, once the reference is parsed
AbsolutizeParsed(raw, baseStr, pu) ==
    IF pu.err THEN [out |-> raw, err |-> TRUE]
    ELSE IF IsAbs(pu.url) THEN [out |-> UrlString(pu.url), err |-> FALSE]
    ELSE AbsoluteAgainst(raw, pu.url, UrlParse(baseStr))

\* absolutize: [out, err]
absolutize(raw, baseStr) ==
    IF raw = <<>> THEN [out |-> raw, err |-> FALSE]
    ELSE AbsolutizeParsed(raw, baseStr, UrlParse(raw))

----------------------------------------------------------------------------
(* fetchOG and the defaulting step of main                                 *)

DefaultTitle ==
    <<"U", "n", "i", "G", "o", "o", "d", "s">>
DefaultDescription ==
    <<"U", "n", "i", "G", "o", "o", "d", "s", " ", "l", "i", "n", "k">>
\* the description of the 404 page, its Hangul text transliterated
NotFoundDescription ==
    <<"M", "o", "v", "i", "n", "g", " ", "t", "o", " ", "t", "h", "e", " ", "U", "n", "i", "G", "o", "o", "d", "s", " ", "s", "h", "o", "p", ".">>

HttpSchemes == {<<"h", "t", "t", "p">>, <<"h", "t", "t", "p", "s">>}

\* fetchOG, once http.NewRequest has parsed the target
FetchParsed(pu, net) ==
    IF pu.err THEN [og |-> NoOG, err |-> TRUE]
    ELSE IF pu.url.Scheme \notin HttpSchemes \/ pu.url.Host = <<>> \/ net.err
    THEN [og |-> NoOG, err |-> TRUE]
    ELSE [og |-> parseOGHTML(net.body), err |-> FALSE]

\* fetchOG: [og, err].  net is what the network does with the request: a
\* transport or read error, or a body (the element nodes of the parsed document).
\* http.NewRequest fails on a target url.Parse rejects; client.Do fails on a
\* scheme other than http(s) and on a missing host.
fetchOG(target, net) == FetchParsed(UrlParse(target), net)

\* if og.Image == "" && cfg.GlobalOG != "" { og.Image = cfg.GlobalOG }
FillImage(og, globalOG) ==
    IF og.Image = <<>> /\ globalOG # <<>> THEN [og EXCEPT !.Image = globalOG] ELSE og

\* a variant without the default title
FillTitleNone(og) == og

\* if og.Title == "" { og.Title = "UniGoods" }
FillTitle(og) ==
    IF og.Title = <<>> THEN [og EXCEPT !.Title = DefaultTitle] ELSE og

\* if og.Description == "" { og.Description = "UniGoods link" }
FillDescription(og) ==
    IF og.Description = <<>> THEN [og EXCEPT !.Description = DefaultDescription] ELSE og

\* if abs, err := absolutize(og.Image, to); err == nil { og.Image = abs }
TakeAbsolute(og, abs) ==
    IF ~abs.err THEN [og EXCEPT !.Image = abs.out] ELSE og

\* if og.Image != "" { ... }
ResolveImage(og, to) ==
    IF og.Image # <<>> THEN TakeAbsolute(og, absolutize(og.Image, to)) ELSE og

\* the defaulting step of the loop body: the OG handed to buildHTML
Defaulted(og, to, globalOG) ==
    ResolveImage(FillDescription(FillTitle(FillImage(og, globalOG))), to)

\* os.WriteFile: the file is created or replaced
WriteFile(fs, path, content) ==
    [f \in DOMAIN fs \cup {path} |-> IF f = path THEN content ELSE fs[f]]

NoFiles == [f \in {} |-> <<>>]

NoCfg == [CNAME |-> <<>>, GlobalOG |-> <<>>, DefaultRedirect |-> <<>>, Routes |-> NoFiles]

NoCall == [op |-> "none"]

----------------------------------------------------------------------------
(* Inputs of a run                                                         *)

\* the largest number of routes of a configuration
MaxRoutes == 2

RouteKeys ==
    { <<"a">>, <<"/", "a">>, <<"a", "/", "/">>, <<"/">>, <<"b", "/">> }

TExample ==
    <<"h", "t", "t", "p", "s", ":", "/", "/", "e", "x", "a", "m", "p", "l", "e", ".", "c", "o", "m", "/", "a", "/", "b">>
TQuery ==
    <<"h", "t", "t", "p", "s", ":", "/", "/", "t", ".", "c", "o", "/", "?", "a", "=", "1", "&", "b", "=", "\"", "x", "\"">>
TBadHost ==
    <<"h", "t", "t", "p", "s", ":", "/", "/", "b", "a", "d", " ", "h", "o", "s", "t", "/">>

Targets == {TExample, TQuery, TBadHost}

OgRelative ==
    <<"/", "o", "g", ".", "p", "n", "g">>
OgAbsolute ==
    <<"h", "t", "t", "p", "s", ":", "/", "/", "c", "d", "n", ".", "e", "x", "a", "m", "p", "l", "e", ".", "c", "o", "m", "/", "o", "g", ".", "p", "n", "g">>

GlobalOGs == {<<>>, OgRelative, OgAbsolute}

CnameHost ==
    <<"s", "h", "o", "p", ".", "u", "n", "i", "g", "o", "o", "d", "s", ".", "i", "m">>

\* the cname and defaultRedirect of a configuration: blank, or set
SiteSettings ==
    { [CNAME |-> <<" ">>, DefaultRedirect |-> <<>>],
      [CNAME |-> CnameHost, DefaultRedirect |-> TExample] }

ScrapedTitle ==
    <<" ", "S", "h", "o", "p", " ", "<", "A", "&", "B", ">", " ">>
ScrapedDescription ==
    <<"I", "t", "'", "s", " ", "\"", "n", "e", "w", "\"">>
ScrapedImage ==
    <<"/", "i", "m", "g", ".", "p", "n", "g">>

Attr(k, v) == [Key |-> k, Val |-> v]

Meta(attrs) == [Data |-> MetaTag, Attr |-> attrs]

\* a page with all three properties, and one with a title alone
BodyFull ==
    << Meta(<<Attr(KProperty, OgTitleKey), Attr(KContent, ScrapedTitle)>>),
       Meta(<<Attr(KProperty, OgDescriptionKey), Attr(KContent, ScrapedDescription)>>),
       Meta(<<Attr(KProperty, OgImageKey), Attr(KContent, ScrapedImage)>>) >>
BodyTitleOnly ==
    << Meta(<<Attr(KName, OgTitleKey), Attr(KContent, <<"T">>)>>) >>

Nets ==
    { [err |-> TRUE, body |-> <<>>],
      [err |-> FALSE, body |-> BodyFull],
      [err |-> FALSE, body |-> BodyTitleOnly] }

RouteMaps ==
    UNION { [ks -> Targets] : ks \in {k \in SUBSET RouteKeys : Cardinality(k) <= MaxRoutes} }

Configs ==
    { [CNAME |-> st.CNAME, GlobalOG |-> g, DefaultRedirect |-> st.DefaultRedirect, Routes |-> r] :
        st \in SiteSettings, g \in GlobalOGs, r \in RouteMaps }

----------------------------------------------------------------------------
(* main                                                                    *)

Page(p) == [kind |-> "page", page |-> p]

Text(t) == [kind |-> "text", text |-> t]

Init ==
    /\ pc = "start"
    /\ cfg \in Configs
    /\ todo = {}
    /\ files = NoFiles
    /\ hist = NoFiles
    /\ call = NoCall

\* loadConfig, then the CNAME file
Start ==
    /\ pc = "start"
    /\ \/ /\ pc' = "routes"
          /\ todo' = DOMAIN cfg.Routes
          /\ files' = IF TrimSpace(cfg.CNAME) # <<>>
                      THEN WriteFile(files, Join(OutDir, CnameFile), Text(cfg.CNAME \o <<"\n">>))
                      ELSE files
       \/ /\ pc' = "fatal"
          /\ UNCHANGED <<todo, files>>
    /\ UNCHANGED <<cfg, hist, call>>

\* the end of the loop body: the page is built and written
RouteWrite(p, routePath, to, got, og) ==
    /\ files' = WriteFile(files, DestFile(routePath), Page(buildHTML(routePath, to, og)))
    /\ hist' = WriteFile(hist, p,
                   [routePath |-> routePath, to |-> to, err |-> got.err,
                    scraped |-> got.og, og |-> og, file |-> DestFile(routePath)])
    /\ todo' = todo \ {p}
    /\ pc' = pc

RouteFetched(p, to, got) ==
    RouteWrite(p, cleanRoutePath(p), to, got, Defaulted(got.og, to, cfg.GlobalOG))

\* one iteration of the range loop, for a key the loop has not visited yet
Route(p) ==
    /\ pc = "routes"
    /\ p \in todo
    /\ \/ \E net \in Nets : RouteFetched(p, cfg.Routes[p], fetchOG(cfg.Routes[p], net))
       \/ /\ pc' = "fatal"
          /\ UNCHANGED <<files, hist, todo>>
    /\ UNCHANGED <<cfg, call>>

\* after the loop: the 404 page, then "done"
Tail404 ==
    /\ pc = "routes"
    /\ todo = {}
    /\ \/ /\ pc' = "done"
          /\ files' = IF TrimSpace(cfg.DefaultRedirect) # <<>>
                      THEN WriteFile(files, Join(OutDir, NotFoundFile),
                               Page(buildHTML(NotFoundPath, cfg.DefaultRedirect,
                                   [Title |-> DefaultTitle, Description |-> NotFoundDescription,
                                    Image |-> cfg.GlobalOG])))
                      ELSE files
       \/ /\ pc' = "fatal"
          /\ UNCHANGED files
    /\ UNCHANGED <<cfg, todo, hist, call>>

Next ==
    \/ Start
    \/ \E p \in RouteKeys : Route(p)
    \/ Tail404

Spec == Init /\ [][Next]_vars

----------------------------------------------------------------------------
(* buildHTML on its own                                                    *)

\* the longest title drawn from the escaping alphabet
MaxStrLen == 2

EscAlphabet == {"<", ">", "&", "\"", "'", "a"}

ScriptTitle ==
    <<"<", "s", "c", "r", "i", "p", "t", ">", "a", "l", "e", "r", "t", "(", "1", ")", "<", "/", "s", "c", "r", "i", "p", "t", ">">>
SelfTarget ==
    <<"h", "t", "t", "p", "s", ":", "/", "/", "s", "h", "o", "p", ".", "u", "n", "i", "g", "o", "o", "d", "s", ".", "i", "m", "/", "a">>
PathAmp ==
    <<"/", "a", "&", "b">>

RenderTitles == StringsUpTo(EscAlphabet, MaxStrLen) \cup {ScriptTitle}

RenderPaths == {<<>>, <<"/", "a">>, PathAmp}

RenderTargets == {TQuery, SelfTarget, ScriptTitle}

RenderImages == {<<>>, <<"/", "i", ".", "p", "n", "g", "?", "a", "=", "'", "&", "b">>}

RenderDescriptions == {ScrapedDescription, ScriptTitle}

InitRender ==
    /\ pc = "idle"
    /\ cfg = NoCfg
    /\ todo = {}
    /\ files = NoFiles
    /\ hist = NoFiles
    /\ \E path \in RenderPaths, to \in RenderTargets, t \in RenderTitles,
          d \in RenderDescriptions, im \in RenderImages :
            call = [op |-> "buildHTML", path |-> path, to |-> to,
                    og |-> [Title |-> t, Description |-> d, Image |-> im],
                    done |-> FALSE, page |-> <<>>]

Render ==
    /\ call.op = "buildHTML"
    /\ ~call.done
    /\ call' = [call EXCEPT !.done = TRUE, !.page = buildHTML(call.path, call.to, call.og)]
    /\ UNCHANGED <<pc, cfg, todo, files, hist>>

NextRender == Render

SpecRender == InitRender /\ [][NextRender]_vars

----------------------------------------------------------------------------
(* parseOGHTML on its own: the walk, one node at a time                    *)

\* the largest number of element nodes of a document
MaxNodes == 2

PropTitleLoud ==
    <<" ", "O", "G", ":", "T", "i", "t", "l", "e", " ">>
PlainTitle ==
    <<"t", "i", "t", "l", "e">>
LinkTag ==
    <<"l", "i", "n", "k">>

\* no attribute of that key
Absent == <<"-">>

PropVals == {Absent, PropTitleLoud, OgImageKey, OgDescriptionKey, <<" ">>, <<"x">>}

NameVals == {Absent, OgTitleKey, PlainTitle}

ContVals == {<<" ", "A", " ">>, <<"B">>}

AttrIf(k, v) == IF v = Absent THEN <<>> ELSE <<Attr(k, v)>>

Nodes ==
    { Meta(AttrIf(KProperty, pv) \o AttrIf(KName, nv) \o AttrIf(KContent, cv)) :
        pv \in PropVals, nv \in NameVals, cv \in ContVals }
    \cup { [Data |-> LinkTag, Attr |-> <<Attr(KProperty, OgTitleKey), Attr(KContent, <<"B">>)>>] }

Bodies == UNION { [1..n -> Nodes] : n \in 0..MaxNodes }

InitParse ==
    /\ pc = "idle"
    /\ cfg = NoCfg
    /\ todo = {}
    /\ files = NoFiles
    /\ hist = NoFiles
    /\ \E b \in Bodies :
          call = [op |-> "parseOGHTML", body |-> b, i |-> 0, og |-> NoOG, before |-> NoOG]

\* f visits the next node in document order
Visit ==
    /\ call.op = "parseOGHTML"
    /\ call.i < Len(call.body)
    /\ call' = [call EXCEPT !.i = call.i + 1,
                            !.before = call.og,
                            !.og = VisitNode(call.og, call.body[call.i + 1])]
    /\ UNCHANGED <<pc, cfg, todo, files, hist>>

NextParse == Visit

SpecParse == InitParse /\ [][NextParse]_vars

----------------------------------------------------------------------------
(* absolutize on its own, as the defaulting step calls it                  *)

\* the longest reference drawn from the URL alphabet
MaxRefLen == 3

UrlAlphabet == {"h", "H", ":", "/", ".", " ", "%", "?"}

BaseA ==
    <<"h", "t", "t", "p", "s", ":", "/", "/", "e", "x", "a", "m", "p", "l", "e", ".", "c", "o", "m", "/", "a">>
BaseRoot ==
    <<"h", "t", "t", "p", "s", ":", "/", "/", "e", "x", "a", "m", "p", "l", "e", ".", "c", "o", "m">>
RefCdn ==
    <<"/", "/", "c", "d", "n", ".", "x", ".", "c", "o", "m", "/", "i", ".", "p", "n", "g">>
RefFull ==
    <<"h", "t", "t", "p", "s", ":", "/", "/", "f", "u", "l", "l", ".", "c", "o", "m", "/", "i", ".", "p", "n", "g">>
RefUpper ==
    <<"H", "T", "T", "P", "S", ":", "/", "/", "f", "u", "l", "l", ".", "c", "o", "m", "/", "i", ".", "p", "n", "g">>

Refs == StringsUpTo(UrlAlphabet, MaxRefLen) \cup {ScrapedImage, RefCdn, RefFull, RefUpper}

Bases == {TExample, BaseA, BaseRoot, TBadHost, <<>>}

InitAbs ==
    /\ pc = "idle"
    /\ cfg = NoCfg
    /\ todo = {}
    /\ files = NoFiles
    /\ hist = NoFiles
    /\ \E raw \in Refs, base \in Bases :
          call = [op |-> "absolutize", raw |-> raw, base |-> base, done |-> FALSE,
                  out |-> <<>>, err |-> FALSE, image |-> raw]

\* if og.Image != "" { if abs, err := absolutize(og.Image, to); err == nil { og.Image = abs } }
Absolutize ==
    /\ call.op = "absolutize"
    /\ ~call.done
    /\ LET r == absolutize(call.raw, call.base)
       IN  call' = [call EXCEPT !.done = TRUE, !.out = r.out, !.err = r.err,
                                !.image = IF call.raw # <<>> /\ ~r.err THEN r.out ELSE call.raw]
    /\ UNCHANGED <<pc, cfg, todo, files, hist>>

NextAbs == Absolutize

SpecAbs == InitAbs /\ [][NextAbs]_vars

----------------------------------------------------------------------------
(* Properties of buildHTML (under SpecRender)                              *)

Rendered == call.op = "buildHTML" /\ call.done

\* C1: for every logical path, target URL and metadata, the og:url value and
\* the canonical link href of the document are both the escaped site origin
\* followed by the logical path, and neither of them is the target URL.
C1_CanonicalIsSiteUrl ==
    Rendered =>
        /\ call.page["og:url"] = EscapeString(SiteOrigin \o call.path)
        /\ call.page["canonical"] = EscapeString(SiteOrigin \o call.path)
        /\ call.to # SiteOrigin \o call.path =>
              /\ UnescapeString(call.page["og:url"]) # call.to
              /\ UnescapeString(call.page["canonical"]) # call.to

\* the value each site of the template is meant to carry; the canonical href
\* is left to C1
SiteValue(site) ==
    CASE site \in {"title", "og:title"} -> call.og.Title
      [] site \in {"description", "og:description"} -> call.og.Description
      [] site = "og:image" -> call.og.Image
      [] site = "og:url" -> SiteOrigin \o call.path
      [] site \in {"script", "noscript"} -> call.to

\* C2: every interpolation site of the document holds the entity-escaped form
\* of its value: the site has no raw <, >, ", ' and no & that does not start an
\* entity, and unescaping it gives the value back; a title holding
\* <script>alert(1)</script> appears with &lt; and &gt; only.
C2_SitesEscaped ==
    Rendered =>
        /\ \A site \in Range(TplSites) : WellEscaped(call.page[site])
        /\ \A site \in Range(TplSites) \ {"canonical"} :
              UnescapeString(call.page[site]) = SiteValue(site)
        /\ \A site \in Range(TplSites) : "<" \notin Range(call.page[site])

C2_Witness ==
    /\ Rendered
    /\ call.og.Title = ScriptTitle
    /\ HasPrefix(call.page["title"], LtEntity \o <<"s", "c", "r", "i", "p", "t">> \o GtEntity)
    /\ "'" \in Range(call.og.Image)
    /\ "\"" \in Range(call.to)

----------------------------------------------------------------------------
(* Properties of a run of main (under Spec)                                *)

PageOf(k) == files[hist[k].file].page

\* C3: after a run that ends without a fatal error, every route key of the
\* configuration has an output page of its own (distinct keys, distinct files),
\* and that page's script redirect and noscript link hold the key's target,
\* escaped so that unescaping gives the target back.
C3_EveryKeyOwnPage ==
    pc = "done" =>
        /\ \A k \in DOMAIN cfg.Routes :
              /\ k \in DOMAIN hist
              /\ hist[k].file \in DOMAIN files
              /\ UnescapeString(PageOf(k)["script"]) = cfg.Routes[k]
              /\ UnescapeString(PageOf(k)["noscript"]) = cfg.Routes[k]
        /\ \A k1, k2 \in DOMAIN cfg.Routes : k1 # k2 => hist[k1].file # hist[k2].file

\* C4: when the fetch of route A fails and the fetch of route B succeeds, in
\* either order, both have a page at the end of the run; A's page carries the
\* default title, the default description and the global fallback image (if one
\* is configured), B's page carries the scraped title and description.
C4_PartialFailureIsolation ==
    pc = "done" =>
        \A a, b \in DOMAIN hist :
            (hist[a].err /\ ~hist[b].err /\ hist[a].file # hist[b].file) =>
                /\ hist[a].file \in DOMAIN files /\ hist[b].file \in DOMAIN files
                /\ UnescapeString(PageOf(a)["title"]) = DefaultTitle
                /\ UnescapeString(PageOf(a)["description"]) = DefaultDescription
                /\ cfg.GlobalOG # <<>> => UnescapeString(PageOf(a)["og:image"]) = cfg.GlobalOG
                /\ hist[b].scraped.Title # <<>> =>
                      UnescapeString(PageOf(b)["title"]) = hist[b].scraped.Title
                /\ hist[b].scraped.Description # <<>> =>
                      UnescapeString(PageOf(b)["description"]) = hist[b].scraped.Description

\* C5: the defaulting step turns an empty scraped title into the site-name
\* default and an empty scraped description into the default description, and
\* with an empty scraped image and a configured global fallback the image of
\* the page is the configured fallback string verbatim.
C5_FallbackVerbatim ==
    \A k \in DOMAIN hist :
        /\ hist[k].scraped.Title = <<>> => hist[k].og.Title = DefaultTitle
        /\ hist[k].scraped.Description = <<>> => hist[k].og.Description = DefaultDescription
        /\ (hist[k].scraped.Image = <<>> /\ cfg.GlobalOG # <<>>) =>
              hist[k].og.Image = cfg.GlobalOG

\* C6: the path cleanRoutePath returns for a route key begins with "/" and
\* does not end with "/", unless it is the root path "/".
C6_NormalizedPath ==
    \A k \in DOMAIN hist :
        /\ HasPrefix(hist[k].routePath, Slash)
        /\ HasSuffix(hist[k].routePath, Slash) => hist[k].routePath = Slash

----------------------------------------------------------------------------
(* Properties of parseOGHTML (under SpecParse)                             *)

Walking == call.op = "parseOGHTML"

IsMeta(n) == EqualFold(n.Data, MetaTag)

\* the positions among the first i nodes whose key is the given one
Mapped(i, key) ==
    {j \in 1..i : IsMeta(call.body[j]) /\ LookupKey(ReadAttrs(call.body[j].Attr, NoAttrs)) = key}

\* the trimmed content of the last of them, empty when there is none
LastContent(i, key) ==
    IF Mapped(i, key) = {} THEN <<>>
    ELSE LET j == CHOOSE m \in Mapped(i, key) : \A o \in Mapped(i, key) : o <= m
         IN  ReadAttrs(call.body[j].Attr, NoAttrs).cont

\* C8: after any number of nodes visited, each field is the trimmed content of
\* the last visited meta tag whose key maps to it, and empty when there is
\* none; extracting the whole document again gives the same result.
C8_LastWins ==
    Walking =>
        /\ call.og.Title = LastContent(call.i, OgTitleKey)
        /\ call.og.Description = LastContent(call.i, OgDescriptionKey)
        /\ call.og.Image = LastContent(call.i, OgImageKey)
        /\ call.i = Len(call.body) => parseOGHTML(call.body) = call.og

C8_Witness ==
    /\ Walking
    /\ call.i = 2
    /\ Mapped(2, OgTitleKey) = {1, 2}
    /\ ReadAttrs(call.body[1].Attr, NoAttrs).cont = <<"A">>
    /\ call.before.Title = <<"A">>
    /\ call.og.Title = <<"B">>

\* the value of attribute key of a node, empty when the node has none
AttrValue(n, key) ==
    IF \E i \in DOMAIN n.Attr : n.Attr[i].Key = key
    THEN n.Attr[CHOOSE i \in DOMAIN n.Attr : n.Attr[i].Key = key].Val
    ELSE <<>>

\* the lookup key as the contract words it
ContractKey(n) ==
    IF TrimSpace(AttrValue(n, KProperty)) # <<>>
    THEN ToLower(TrimSpace(AttrValue(n, KProperty)))
    ELSE ToLower(TrimSpace(AttrValue(n, KName)))

\* C9: the key of a meta tag is its lower-cased property when that is non-empty
\* after trimming and its lower-cased name otherwise; og:title, og:description
\* and og:image set their field to the trimmed content and leave the others;
\* any other key leaves every field unchanged.
C9_KeyPrecedence ==
    (Walking /\ call.i > 0 /\ IsMeta(call.body[call.i])) =>
        LET n == call.body[call.i]
            key == ContractKey(n)
            cont == TrimSpace(AttrValue(n, KContent))
        IN  /\ key = OgTitleKey => call.og = [call.before EXCEPT !.Title = cont]
            /\ key = OgDescriptionKey => call.og = [call.before EXCEPT !.Description = cont]
            /\ key = OgImageKey => call.og = [call.before EXCEPT !.Image = cont]
            /\ key \notin {OgTitleKey, OgDescriptionKey, OgImageKey} => call.og = call.before

C9_Witness ==
    /\ Walking
    /\ call.i = 2
    /\ IsMeta(call.body[2])
    /\ AttrValue(call.body[2], KProperty) = <<"x">>
    /\ AttrValue(call.body[2], KName) = OgTitleKey
    /\ call.before.Title = <<"A">>
    /\ call.og = call.before

----------------------------------------------------------------------------
(* Properties of absolutize (under SpecAbs)                                *)

Absolutized == call.op = "absolutize" /\ call.done

RefParse == UrlParse(call.raw)

BaseParse == UrlParse(call.base)

\* the reference has a host and no scheme
ProtocolRelative == ~RefParse.err /\ RefParse.url.Scheme = <<>> /\ RefParse.url.Host # <<>>

\* the scheme of the base, with its colon, as it is written before a reference
BaseSchemePrefix ==
    IF BaseParse.url.Scheme = <<>> THEN <<>> ELSE BaseParse.url.Scheme \o Colon

ImgPng ==
    <<"h", "t", "t", "p", "s", ":", "/", "/", "e", "x", "a", "m", "p", "l", "e", ".", "c", "o", "m", "/", "i", "m", "g", ".", "p", "n", "g">>
CdnPng ==
    <<"h", "t", "t", "p", "s", ":", "/", "/", "c", "d", "n", ".", "x", ".", "c", "o", "m", "/", "i", ".", "p", "n", "g">>

\* the four resolutions the contract lists
ListedExamples ==
    /\ (call.raw = ScrapedImage /\ call.base = TExample) => call.out = ImgPng
    /\ (call.raw = RefCdn /\ call.base = BaseA) => call.out = CdnPng
    /\ (call.raw = RefFull /\ call.base = BaseRoot) => call.out = RefFull
    /\ call.raw = <<>> => call.out = <<>>

\* C10 as stated: empty gives empty; an absolute reference is returned
\* unchanged; a protocol-relative one is the reference with the base's scheme;
\* the rest is resolved against the base; and when the reference or the base
\* fails to parse the image is the original reference, with no failure raised.
C10_ResolutionContract ==
    Absolutized =>
        /\ ListedExamples
        /\ (~RefParse.err /\ IsAbs(RefParse.url)) => call.out = call.raw
        /\ (ProtocolRelative /\ ~BaseParse.err) => call.out = BaseSchemePrefix \o call.raw
        /\ (RefParse.err \/ BaseParse.err) => call.image = call.raw

\* the text of an absolute reference before its first colon
SchemeText(raw) == Upto(raw, IndexByte(raw, ":") - 1)

\* the text of a reference after its scheme (if any) and before its query
Hierarchy(raw, abs) ==
    LET rest == IF abs THEN From(raw, IndexByte(raw, ":") + 1) ELSE raw
    IN  IF IndexByte(rest, "?") = 0 THEN rest ELSE Upto(rest, IndexByte(rest, "?") - 1)

\* a reference url.Parse followed by String gives back as it is: a lower-case
\* scheme, no character the path encoding escapes, no empty authority
Serialized(raw, abs) ==
    /\ abs => SchemeText(raw) = ToLower(SchemeText(raw))
    /\ \A i \in DOMAIN raw : raw[i] \notin {" ", "\"", "<", ">"}
    /\ Hierarchy(raw, abs) # <<"/", "/">>

\* C10, amended: empty gives empty; a reference with a scheme is returned as
\* url.Parse and String re-serialize it, with the scheme lower-cased, and is
\* unchanged when it is already in that form, whatever the base; a
\* protocol-relative reference is its re-serialized form after the base's
\* scheme; the rest is resolved against the base; when the reference fails to
\* parse, or it is not empty, has no scheme and the base fails to parse, the
\* image is the original reference, and the step always completes.
C10_ResolutionAmended ==
    Absolutized =>
        /\ ListedExamples
        /\ call.raw = <<>> => (~call.err /\ call.image = <<>>)
        /\ (~RefParse.err /\ IsAbs(RefParse.url)) =>
              /\ ~call.err
              /\ HasPrefix(call.out, ToLower(SchemeText(call.raw)) \o Colon)
              /\ Serialized(call.raw, TRUE) => call.out = call.raw
              /\ call.image = call.out
        /\ (ProtocolRelative /\ ~BaseParse.err) =>
              /\ ~call.err
              /\ HasPrefix(call.out, BaseSchemePrefix \o <<"/", "/">> \o RefParse.url.Host)
              /\ Serialized(call.raw, FALSE) => call.out = BaseSchemePrefix \o call.raw
              /\ call.image = call.out
        /\ (RefParse.err \/ (call.raw # <<>> /\ ~IsAbs(RefParse.url) /\ BaseParse.err)) =>
              (call.err /\ call.image = call.raw)
        /\ (call.raw # <<>> /\ ~call.err) => call.image = call.out

C10_Witness ==
    /\ Absolutized
    /\ call.raw = RefUpper
    /\ call.base = TBadHost
    /\ call.out = RefFull
    /\ call.image = RefFull

====
